---- MODULE Spec2Model ----
(***************************************************************************)
(* PhaseFairRWLock (src/PhaseFairRWLock.cpp): a monitor-style reader/writer *)
(* lock with a FIFO queue of sleeping writers.                             *)
(*                                                                         *)
(* Every public method runs under _mutex; the only points where the mutex  *)
(* is given up are the condition-variable waits.  One action of the model  *)
(* is therefore one critical section: from the acquisition of _mutex (or   *)
(* the return from a wait) to the next wait or to the return.              *)
(*                                                                         *)
(* The clock is not modelled: whether a deadline has passed is an input    *)
(* chosen nondeterministically at every place the code consults it.        *)
(*                                                                         *)
(* A suspended thread leaves its wait in a step in which it runs and finds *)
(* its predicate true.  It may run because it was notified, because its    *)
(* deadline passed, or spuriously; `notified` records the notifications,   *)
(* the only wake-ups of a wait without deadline that FairSpec promises.     *)
(*                                                                         *)
(* Spec is the lock used by arbitrary callers; BenchSpec is the benchmark  *)
(* of main, which uses the same methods from its writer threads.           *)
(***************************************************************************)
EXTENDS Integers, Sequences, FiniteSets

\* Number of threads using the lock (bound of the model).
NumThreads == 3

Threads == 1 .. NumThreads

\* WriterAlarmClock objects.  A thread owns at most one alarm clock at a time
\* and `new` is called only when _freeList is empty, so NumThreads objects
\* are enough; an object leaked by a timed-out call is unreachable, and its
\* identity stands for the next freshly allocated object.
Nodes == 1 .. NumThreads

\* nullptr
NULL == 0

VARIABLES
  phase,          \* _phase: 0 .. 3
  readersRun,     \* _readersRun
  readersWait,    \* _readersWait
  sleepersStart,  \* _sleepersStart
  sleepersEnd,    \* _sleepersEnd
  freeList,       \* _freeList
  next,           \* WriterAlarmClock::next of every object
  pc,             \* where every thread is (outside _mutex)
  wac,            \* the local `wac` of a thread inside (try)writeLock
  notified,       \* a wake-up is pending for the thread suspended in a wait
  ahead,          \* history: the writers that were queued when a reader's
                  \* call started and have not finished their turn yet
  crashed,        \* the process has run into undefined behaviour and died
  woke,           \* history: the event that last opened a reading phase
                  \* for a reader that has been suspended ever since
  concurrency,    \* main: number of benchmark threads (argv[2])
  count,          \* main: iterations of every benchmark thread (argv[1])
  value,          \* main: the shared counter
  iter,           \* func: the loop variable i of every benchmark thread
  step,           \* func: the statement of the loop body a thread is at
  tmp             \* func: the value a thread has loaded in `++value`

\* The benchmark of main; nothing but the benchmark touches these.
driver == <<concurrency, count, value, iter, step, tmp>>

vars == <<phase, readersRun, readersWait, sleepersStart, sleepersEnd,
          freeList, next, pc, wac, notified, ahead, crashed, woke, driver>>

\* The phases (comment at lines 35-39 of the source).
READING == 0
READING_WRITERS_WAITING == 1
HANDOFF == 2
WRITING == 3

WriterWaits == {"wl_q", "wl_h", "twl_q", "twl_h"}
ReaderWaits == {"rl_w", "trl_w"}
Waits == WriterWaits \cup ReaderWaits
Calls == {"c_writeLock", "c_tryWriteLock", "c_tryWriteLockT",
          "c_readLock", "c_tryReadLock", "c_tryReadLockT"}
Fails == {"f_tryWriteLock", "f_tryWriteLockT", "f_tryReadLock", "f_tryReadLockT"}
PcValues == {"idle", "holdR", "holdW"} \cup Calls \cup Waits \cup Fails

----------------------------------------------------------------------------
\* The linked structures

\* The objects reachable from n through `next`, in order.
RECURSIVE Chain(_, _)
Chain(n, nx) == IF n = NULL THEN <<>> ELSE <<n>> \o Chain(nx[n], nx)

Range(s) == {s[i] : i \in 1 .. Len(s)}

\* The writer queue, head first.
QueueSeq == Chain(sleepersStart, next)

\* _sleepersStart, _sleepersEnd, _freeList and the next fields, as one value
\* that the private helpers transform.
Heap == [start |-> sleepersStart, end |-> sleepersEnd,
         free |-> freeList, next |-> next]

SetHeap(h) ==
  /\ sleepersStart' = h.start
  /\ sleepersEnd' = h.end
  /\ freeList' = h.free
  /\ next' = h.next

\* `new WriterAlarmClock()`: an object that is neither owned by a thread nor
\* on the free list.
FreshNode ==
  LET used == {wac[t] : t \in Threads} \cup Range(Chain(freeList, next))
      avail == Nodes \ used
  IN CHOOSE n \in avail : \A m \in avail : n <= m

\* getAlarmClock: the object handed out, and the heap afterwards.
getAlarmClock(h) ==
  IF h.free # NULL
    THEN [wac |-> h.free,
          heap |-> [h EXCEPT !.free = h.next[h.free],
                             !.next = [h.next EXCEPT ![h.free] = NULL]]]
    ELSE [wac |-> FreshNode,
          heap |-> [h EXCEPT !.next = [h.next EXCEPT ![FreshNode] = NULL]]]

\* returnAlarmClock
returnAlarmClock(h, w) ==
  [h EXCEPT !.next = [h.next EXCEPT ![w] = h.free], !.free = w]

\* The first object of the queue whose next is w (the scan of removeFromQueue),
\* or NULL.
RECURSIVE FindPred(_, _, _)
FindPred(n, w, nx) ==
  IF n = NULL THEN NULL
  ELSE IF nx[n] = w THEN n
  ELSE FindPred(nx[n], w, nx)

removeFromQueue_headOnly(h, w) ==
  IF w = h.start
    THEN [h EXCEPT !.start = h.next[h.start],
                   !.end = IF h.next[h.start] = NULL THEN NULL ELSE h.end]
    ELSE h

\* removeFromQueue
removeFromQueue(h, w) ==
  IF w = h.start
    THEN [h EXCEPT !.start = h.next[h.start],
                   !.end = IF h.next[h.start] = NULL THEN NULL ELSE h.end]
    ELSE LET p == FindPred(h.start, w, h.next) IN
         IF p = NULL THEN h
         ELSE [h EXCEPT !.next = [h.next EXCEPT ![p] = h.next[w]],
                        !.end = IF h.next[w] = NULL THEN p ELSE h.end]

enqueue_atFront(h, w) ==
  IF h.start # NULL
    THEN [h EXCEPT !.next = [h.next EXCEPT ![w] = h.start], !.start = w]
    ELSE [h EXCEPT !.start = w, !.end = w]

\* Lines 98-111 / 168-187: append the alarm clock to the queue, or make it the
\* only element.
enqueue(h, w) ==
  IF h.start # NULL
    THEN [h EXCEPT !.next = [h.next EXCEPT ![h.end] = w], !.end = w]
    ELSE [h EXCEPT !.start = w, !.end = w]

----------------------------------------------------------------------------
\* Condition variables

\* The thread suspended on the condition variable of object n.
Sleeper(n) == {t \in Threads : pc[t] \in WriterWaits /\ wac[t] = n}

\* cond.notify_one() on the head of the queue (h is the heap at that moment).
NotifyHead(h) == [t \in Threads |-> notified[t] \/ t \in Sleeper(h.start)]

\* _cond.notify_all()
NotifyReaders == [t \in Threads |-> notified[t] \/ pc[t] \in ReaderWaits]

\* The predicate the suspended thread t waits for.
WaitPred(t) ==
  CASE pc[t] \in {"wl_q", "twl_q"} -> wac[t] = sleepersStart
    [] pc[t] \in {"wl_h", "twl_h"} -> phase = HANDOFF
    [] pc[t] \in ReaderWaits -> phase = READING
    [] OTHER -> FALSE

\* The writers whose alarm clock is in the queue.
QueuedThreads == {t \in Threads : wac[t] # NULL /\ wac[t] \in Range(QueueSeq)}

\* A writer's turn is over: it is no longer ahead of any reader.
Leave(t) == [u \in Threads |-> ahead[u] \ {t}]

----------------------------------------------------------------------------
\* The lock after its constructor (lines 66-70).
LockInit ==
  /\ phase = READING
  /\ readersRun = 0
  /\ readersWait = 0
  /\ sleepersStart = NULL
  /\ sleepersEnd = NULL
  /\ freeList = NULL
  /\ next = [n \in Nodes |-> NULL]
  /\ pc = [t \in Threads |-> "idle"]
  /\ wac = [t \in Threads |-> NULL]
  /\ notified = [t \in Threads |-> FALSE]
  /\ ahead = [t \in Threads |-> {}]
  /\ crashed = FALSE
  /\ woke = [t \in Threads |-> "none"]

\* The lock used by arbitrary callers: no benchmark runs.
NoDriver ==
  /\ concurrency = 0
  /\ count = 0
  /\ value = 0
  /\ iter = [t \in Threads |-> 0]
  /\ step = [t \in Threads |-> "report"]
  /\ tmp = [t \in Threads |-> 0]

Init == LockInit /\ NoDriver

----------------------------------------------------------------------------
\* _mutex.  A thread holds it from the `guard` declaration that opens a method
\* (pc in Calls) through the method's critical section, which is one step, and
\* at a `return false` (pc in Fails); a wait gives it up and takes it again in
\* the step that ends the wait.
MutexFree == \A t \in Threads : pc[t] \notin Calls \cup Fails

\* Thread t can run inside the lock: the process is alive and no other thread
\* holds _mutex.
CanRun(t) ==
  /\ ~crashed
  /\ \A u \in Threads \ {t} : pc[u] \notin Calls \cup Fails

\* History of a step of the lock.  A writer's release that finds readers
\* waiting (lines 338-340) and a timed writer's repair (lines 205-209) open a
\* reading phase for the readers suspended at that moment; a reader keeps the
\* mark of the last such event until it leaves its wait.
BatchWake ==
  /\ readersWait > 0
  /\ \E w \in Threads : pc[w] = "holdW" /\ pc'[w] = "idle"

Revert ==
  /\ phase = READING_WRITERS_WAITING
  /\ phase' = READING
  /\ \E w \in Threads : pc[w] = "twl_h" /\ pc'[w] = "f_tryWriteLockT"

Woken ==
  woke' = [t \in Threads |->
             IF pc'[t] \notin ReaderWaits THEN "none"
             ELSE IF BatchWake THEN "release"
             ELSE IF Revert THEN "revert"
             ELSE woke[t]]

\* What every step of a method leaves as it is, and its history.
Rest == Woken /\ UNCHANGED driver

\* `std::unique_lock<std::mutex> guard(_mutex)` at the start of method op.
Call(t, op) ==
  /\ CanRun(t)
  /\ pc[t] = "idle"
  /\ pc' = [pc EXCEPT ![t] = op]
  /\ UNCHANGED <<phase, readersRun, readersWait, sleepersStart, sleepersEnd,
                 freeList, next, wac, notified, ahead, crashed>>
  /\ Rest

\* A try-call returns false and gives up _mutex.  The local wac goes out
\* of scope; an alarm clock it still names is leaked (never put back on the
\* free list), and its identity is given back to the allocator.
Return(t) ==
  /\ CanRun(t)
  /\ pc[t] \in Fails
  /\ pc' = [pc EXCEPT ![t] = "idle"]
  /\ wac' = [wac EXCEPT ![t] = NULL]
  /\ next' = IF wac[t] = NULL THEN next ELSE [next EXCEPT ![wac[t]] = NULL]
  /\ UNCHANGED <<phase, readersRun, readersWait, sleepersStart, sleepersEnd,
                 freeList, notified, ahead, crashed>>
  /\ Rest

----------------------------------------------------------------------------
\* Writers

FreeLock_ignoringReaders == phase = READING

\* "The fast path of a completely free RW lock" (lines 89, 155; also 141).
FreeLock == phase = READING /\ readersRun = 0

\* Lines 90-91, 156-157, 143-144: take the write lock on the fast path.
FastWrite(t) ==
  /\ phase' = WRITING
  /\ pc' = [pc EXCEPT ![t] = "holdW"]
  /\ UNCHANGED <<readersRun, readersWait, sleepersStart, sleepersEnd,
                 freeList, next, wac, notified, ahead, crashed>>

\* Variant: the head of the queue announces itself whatever the phase is.
Announce_anyPhase(ph) == READING_WRITERS_WAITING

\* Lines 115-117, 196-198: "tell readers that we are waiting".
Announce(ph) == IF ph = READING THEN READING_WRITERS_WAITING ELSE ph

\* Lines 122-129, 214-221: got the write lock; leave the queue and recycle the
\* alarm clock.
WriteAcquire(t, h, w) ==
  /\ phase' = WRITING
  /\ SetHeap(returnAlarmClock(removeFromQueue(h, w), w))
  /\ pc' = [pc EXCEPT ![t] = "holdW"]
  /\ wac' = [wac EXCEPT ![t] = NULL]
  /\ notified' = [notified EXCEPT ![t] = FALSE]
  /\ UNCHANGED <<readersRun, readersWait, ahead, crashed>>

\* Lines 113-129: writeLock with its alarm clock w at the head of the queue h.
\* The wait of line 120 does not give up the mutex when the phase is already 2.
writeLockAtHead(t, h, w) ==
  IF Announce(phase) = HANDOFF
    THEN WriteAcquire(t, h, w)
    ELSE /\ phase' = Announce(phase)
         /\ SetHeap(h)
         /\ pc' = [pc EXCEPT ![t] = "wl_h"]
         /\ wac' = [wac EXCEPT ![t] = w]
         /\ notified' = [notified EXCEPT ![t] = FALSE]
         /\ UNCHANGED <<readersRun, readersWait, ahead, crashed>>

\* Lines 104-105, 174-177: the alarm clock was appended behind others; sleep
\* until it is the head.
WaitForHead(t, h, w, at) ==
  /\ SetHeap(h)
  /\ pc' = [pc EXCEPT ![t] = at]
  /\ wac' = [wac EXCEPT ![t] = w]
  /\ notified' = [notified EXCEPT ![t] = FALSE]
  /\ UNCHANGED <<phase, readersRun, readersWait, ahead, crashed>>

\* writeLock, from taking the mutex to the first wait or the return.
writeLock(t) ==
  /\ CanRun(t)
  /\ pc[t] = "c_writeLock"
  /\ IF FreeLock
       THEN FastWrite(t)
       ELSE LET g == getAlarmClock(Heap)
                h == enqueue(g.heap, g.wac)
            IN IF sleepersStart # NULL
                 THEN WaitForHead(t, h, g.wac, "wl_q")
                 ELSE writeLockAtHead(t, h, g.wac)
  /\ Rest

\* writeLock woken in the wait of line 104 with its alarm clock at the head.
writeLockHead(t) ==
  /\ CanRun(t)
  /\ pc[t] = "wl_q"
  /\ wac[t] = sleepersStart
  /\ writeLockAtHead(t, Heap, wac[t])
  /\ Rest

\* writeLock woken in the wait of line 120 in phase 2.
writeLockHandoff(t) ==
  /\ CanRun(t)
  /\ pc[t] = "wl_h"
  /\ phase = HANDOFF
  /\ WriteAcquire(t, Heap, wac[t])
  /\ Rest

tryWriteLock_noQueueCheck(t) ==
  /\ CanRun(t)
  /\ pc[t] = "c_tryWriteLock"
  /\ IF FreeLock
       THEN FastWrite(t)
       ELSE /\ pc' = [pc EXCEPT ![t] = "f_tryWriteLock"]
            /\ UNCHANGED <<phase, readersRun, readersWait, sleepersStart,
                           sleepersEnd, freeList, next, wac, notified, ahead,
                           crashed>>
  /\ Rest

\* tryWriteLock()
tryWriteLock(t) ==
  /\ CanRun(t)
  /\ pc[t] = "c_tryWriteLock"
  /\ IF sleepersStart = NULL /\ FreeLock
       THEN FastWrite(t)
       ELSE /\ pc' = [pc EXCEPT ![t] = "f_tryWriteLock"]
            /\ UNCHANGED <<phase, readersRun, readersWait, sleepersStart,
                           sleepersEnd, freeList, next, wac, notified, ahead,
                           crashed>>
  /\ Rest

\* Variant: the repair goes back to phase 0 without looking at the queue.
WriteTimeout_noQueueCheck(t, h, w, repair) ==
  LET h1 == removeFromQueue(h, w)
      revert == repair /\ phase = READING_WRITERS_WAITING
  IN /\ SetHeap(h1)
     /\ phase' = IF revert THEN READING ELSE phase
     /\ notified' = IF revert /\ readersWait > 0
                      THEN [NotifyReaders EXCEPT ![t] = FALSE]
                      ELSE [notified EXCEPT ![t] = FALSE]
     /\ pc' = [pc EXCEPT ![t] = "f_tryWriteLockT"]
     /\ wac' = [wac EXCEPT ![t] = w]
     /\ ahead' = Leave(t)
     /\ UNCHANGED <<readersRun, readersWait, crashed>>

\* A timed writer gives up: lines 178-179, 192-193 (repair = FALSE) and
\* 204-211 (repair = TRUE).  Its alarm clock is unlinked and not recycled.
WriteTimeout(t, h, w, repair) ==
  LET h1 == removeFromQueue(h, w)
      revert == repair /\ phase = READING_WRITERS_WAITING /\ h1.start = NULL
  IN /\ SetHeap(h1)
     /\ phase' = IF revert THEN READING ELSE phase
     /\ notified' = IF revert /\ readersWait > 0
                      THEN [NotifyReaders EXCEPT ![t] = FALSE]
                      ELSE [notified EXCEPT ![t] = FALSE]
     /\ pc' = [pc EXCEPT ![t] = "f_tryWriteLockT"]
     /\ wac' = [wac EXCEPT ![t] = w]
     /\ ahead' = Leave(t)
     /\ UNCHANGED <<readersRun, readersWait, crashed>>

\* Lines 189-221: tryWriteLock(timeout) with its alarm clock w at the head of
\* the queue h; expired is the outcome of `_clock.now() > deadline`.
tryWriteLockTAtHead(t, h, w, expired) ==
  IF expired
    THEN WriteTimeout(t, h, w, FALSE)
    ELSE IF Announce(phase) = HANDOFF
      THEN WriteAcquire(t, h, w)
      ELSE /\ phase' = Announce(phase)
           /\ SetHeap(h)
           /\ pc' = [pc EXCEPT ![t] = "twl_h"]
           /\ wac' = [wac EXCEPT ![t] = w]
           /\ notified' = [notified EXCEPT ![t] = FALSE]
           /\ UNCHANGED <<readersRun, readersWait, ahead, crashed>>

\* tryWriteLock(timeout), from taking the mutex to the first wait or return.
tryWriteLockT(t) ==
  /\ CanRun(t)
  /\ pc[t] = "c_tryWriteLockT"
  /\ IF FreeLock
       THEN FastWrite(t)
       ELSE LET g == getAlarmClock(Heap)
                h == enqueue(g.heap, g.wac)
            IN IF sleepersStart # NULL
                 THEN WaitForHead(t, h, g.wac, "twl_q")
                 ELSE \E expired \in BOOLEAN :
                        tryWriteLockTAtHead(t, h, g.wac, expired)
  /\ Rest

\* The wait of line 174 ends with the alarm clock at the head (on a wake-up,
\* or at the deadline, where wait_until returns the predicate, which is
\* true); the check of line 191 then decides.
tryWriteLockTHead(t) ==
  /\ CanRun(t)
  /\ pc[t] = "twl_q"
  /\ wac[t] = sleepersStart
  /\ \E expired \in BOOLEAN : tryWriteLockTAtHead(t, Heap, wac[t], expired)
  /\ Rest

\* The wait of line 174 times out before the alarm clock is the head.
tryWriteLockTQueueTimeout(t) ==
  /\ CanRun(t)
  /\ pc[t] = "twl_q"
  /\ wac[t] # sleepersStart
  /\ WriteTimeout(t, Heap, wac[t], FALSE)
  /\ Rest

\* The wait of line 201 ends in phase 2 (by a notification or at the deadline,
\* where wait_until returns the predicate).
tryWriteLockTHandoff(t) ==
  /\ CanRun(t)
  /\ pc[t] = "twl_h"
  /\ phase = HANDOFF
  /\ WriteAcquire(t, Heap, wac[t])
  /\ Rest

\* The wait of line 201 times out.
tryWriteLockTHandoffTimeout(t) ==
  /\ CanRun(t)
  /\ pc[t] = "twl_h"
  /\ phase # HANDOFF
  /\ WriteTimeout(t, Heap, wac[t], TRUE)
  /\ Rest

----------------------------------------------------------------------------
\* Readers

\* Lines 233, 247, 257 and 239-240, 272-273: the caller becomes a running
\* reader; waited tells whether it was counted in _readersWait.
ReadAcquire(t, waited) ==
  /\ readersRun' = readersRun + 1
  /\ readersWait' = IF waited THEN readersWait - 1 ELSE readersWait
  /\ pc' = [pc EXCEPT ![t] = "holdR"]
  /\ notified' = [notified EXCEPT ![t] = FALSE]
  /\ ahead' = IF waited THEN ahead ELSE [ahead EXCEPT ![t] = QueuedThreads]
  /\ UNCHANGED <<phase, sleepersStart, sleepersEnd, freeList, next, wac,
                 crashed>>

\* Lines 237-238, 266-267: count the caller as waiting and sleep on _cond.
ReadWait(t, at) ==
  /\ readersWait' = readersWait + 1
  /\ pc' = [pc EXCEPT ![t] = at]
  /\ notified' = [notified EXCEPT ![t] = FALSE]
  /\ ahead' = [ahead EXCEPT ![t] = QueuedThreads]
  /\ UNCHANGED <<phase, readersRun, sleepersStart, sleepersEnd, freeList,
                 next, wac, crashed>>

\* Variant: a reader is admitted at once only to a lock nobody holds.
readLock_onlyIfFree(t) ==
  /\ CanRun(t)
  /\ pc[t] = "c_readLock"
  /\ IF FreeLock THEN ReadAcquire(t, FALSE) ELSE ReadWait(t, "rl_w")
  /\ Rest

\* readLock, from taking the mutex to the wait or the return.
readLock(t) ==
  /\ CanRun(t)
  /\ pc[t] = "c_readLock"
  /\ IF phase = READING THEN ReadAcquire(t, FALSE) ELSE ReadWait(t, "rl_w")
  /\ Rest

\* readLock woken in the wait of line 238 in phase 0.
readLockWake(t) ==
  /\ CanRun(t)
  /\ pc[t] = "rl_w"
  /\ phase = READING
  /\ ReadAcquire(t, TRUE)
  /\ Rest

\* tryReadLock()
tryReadLock(t) ==
  /\ CanRun(t)
  /\ pc[t] = "c_tryReadLock"
  /\ IF phase = READING
       THEN ReadAcquire(t, FALSE)
       ELSE /\ pc' = [pc EXCEPT ![t] = "f_tryReadLock"]
            /\ UNCHANGED <<phase, readersRun, readersWait, sleepersStart,
                           sleepersEnd, freeList, next, wac, notified, ahead,
                           crashed>>
  /\ Rest

\* tryReadLock(timeout), from taking the mutex to the wait or the return.
tryReadLockT(t) ==
  /\ CanRun(t)
  /\ pc[t] = "c_tryReadLockT"
  /\ IF phase = READING THEN ReadAcquire(t, FALSE) ELSE ReadWait(t, "trl_w")
  /\ Rest

\* The wait of line 267 ends in phase 0 (by a notification or at the deadline,
\* where wait_until returns the predicate).
tryReadLockTWake(t) ==
  /\ CanRun(t)
  /\ pc[t] = "trl_w"
  /\ phase = READING
  /\ ReadAcquire(t, TRUE)
  /\ Rest

\* Variant: the timed-out reader forgets to take itself out of _readersWait.
tryReadLockTTimeout_noDecrement(t) ==
  /\ CanRun(t)
  /\ pc[t] = "trl_w"
  /\ phase # READING
  /\ pc' = [pc EXCEPT ![t] = "f_tryReadLockT"]
  /\ notified' = [notified EXCEPT ![t] = FALSE]
  /\ ahead' = [ahead EXCEPT ![t] = {}]
  /\ UNCHANGED <<phase, readersRun, readersWait, sleepersStart, sleepersEnd,
                 freeList, next, wac, crashed>>
  /\ Rest

\* The wait of line 267 times out (lines 269-270).
tryReadLockTTimeout(t) ==
  /\ CanRun(t)
  /\ pc[t] = "trl_w"
  /\ phase # READING
  /\ readersWait' = readersWait - 1
  /\ pc' = [pc EXCEPT ![t] = "f_tryReadLockT"]
  /\ notified' = [notified EXCEPT ![t] = FALSE]
  /\ ahead' = [ahead EXCEPT ![t] = {}]
  /\ UNCHANGED <<phase, readersRun, sleepersStart, sleepersEnd, freeList,
                 next, wac, crashed>>
  /\ Rest

----------------------------------------------------------------------------
\* Releasing

\* Variant: a queued writer is served before the waiting readers.
unlockWriteWithMutex_writersFirst ==
  /\ phase' = IF sleepersStart # NULL THEN HANDOFF ELSE READING
  /\ notified' = IF sleepersStart # NULL THEN NotifyHead(Heap)
                 ELSE IF readersWait > 0 THEN NotifyReaders
                 ELSE notified
  /\ UNCHANGED <<readersRun, crashed>>

\* unlockWriteWithMutex (the caller holds the write lock, so _phase == 3).
unlockWriteWithMutex ==
  /\ phase' = IF readersWait > 0 THEN READING
              ELSE IF sleepersStart # NULL THEN HANDOFF
              ELSE READING
  /\ notified' = IF readersWait > 0 THEN NotifyReaders
                 ELSE IF sleepersStart # NULL THEN NotifyHead(Heap)
                 ELSE notified
  /\ UNCHANGED <<readersRun, crashed>>

unlockReadWithMutex_anyReader ==
  /\ readersRun' = readersRun - 1
  /\ IF phase = READING_WRITERS_WAITING
       THEN /\ phase' = HANDOFF
            /\ IF sleepersStart = NULL
                 THEN crashed' \in BOOLEAN /\ notified' = notified
                 ELSE crashed' = crashed /\ notified' = NotifyHead(Heap)
       ELSE UNCHANGED <<phase, notified, crashed>>

\* unlockReadWithMutex.  `_sleepersStart->cond.notify_one()` with
\* _sleepersStart == nullptr is undefined: the process dies, or goes on with
\* nobody woken.
unlockReadWithMutex ==
  /\ readersRun' = readersRun - 1
  /\ IF readersRun - 1 = 0 /\ phase = READING_WRITERS_WAITING
       THEN /\ phase' = HANDOFF
            /\ IF sleepersStart = NULL
                 THEN crashed' \in BOOLEAN /\ notified' = notified
                 ELSE crashed' = crashed /\ notified' = NotifyHead(Heap)
       ELSE UNCHANGED <<phase, notified, crashed>>

\* The caller is done with the lock it held.
Released(t) ==
  /\ pc' = [pc EXCEPT ![t] = "idle"]
  /\ ahead' = [Leave(t) EXCEPT ![t] = {}]
  /\ UNCHANGED <<readersWait, sleepersStart, sleepersEnd, freeList, next, wac>>

\* unlockWrite, called by the holder of the write lock.
unlockWrite(t) ==
  /\ CanRun(t)
  /\ pc[t] = "holdW"
  /\ unlockWriteWithMutex
  /\ Released(t)
  /\ Rest

\* unlockRead, called by a holder of the read lock.
unlockRead(t) ==
  /\ CanRun(t)
  /\ pc[t] = "holdR"
  /\ unlockReadWithMutex
  /\ Released(t)
  /\ Rest

\* unlock, called by a holder of either lock: it reads the kind off _phase.
unlock(t) ==
  /\ CanRun(t)
  /\ pc[t] \in {"holdR", "holdW"}
  /\ IF phase = WRITING THEN unlockWriteWithMutex ELSE unlockReadWithMutex
  /\ Released(t)
  /\ Rest

----------------------------------------------------------------------------
\* Wake-ups of suspended threads

\* A notified thread runs, finds its predicate false and sleeps again: the
\* notification is used up.
SleepAgain(t) ==
  /\ CanRun(t)
  /\ pc[t] \in Waits
  /\ notified[t]
  /\ ~WaitPred(t)
  /\ notified' = [notified EXCEPT ![t] = FALSE]
  /\ UNCHANGED <<phase, readersRun, readersWait, sleepersStart, sleepersEnd,
                 freeList, next, pc, wac, ahead, crashed>>
  /\ Rest

----------------------------------------------------------------------------
\* What a thread does inside the lock once it has called, and when it lets go
\* of what it holds.
Progress(t) ==
  \/ writeLock(t) \/ writeLockHead(t) \/ writeLockHandoff(t)
  \/ tryWriteLock(t)
  \/ tryWriteLockT(t) \/ tryWriteLockTHead(t) \/ tryWriteLockTQueueTimeout(t)
  \/ tryWriteLockTHandoff(t) \/ tryWriteLockTHandoffTimeout(t)
  \/ readLock(t) \/ readLockWake(t)
  \/ tryReadLock(t)
  \/ tryReadLockT(t) \/ tryReadLockTWake(t) \/ tryReadLockTTimeout(t)
  \/ unlockWrite(t) \/ unlockRead(t) \/ unlock(t)
  \/ SleepAgain(t)
  \/ Return(t)

Next ==
  \E t \in Threads :
    \/ \E op \in Calls : Call(t, op)
    \/ Progress(t)

Spec == Init /\ [][Next]_vars

\* The steps of t that scheduling guarantees: a wait without deadline ends
\* only for a thread that was notified (nothing promises a spurious wake-up).
FairProgress(t) ==
  /\ pc[t] \in {"wl_q", "wl_h", "rl_w"} => notified[t]
  /\ Progress(t)

\* Fair scheduling: a thread that is ready to run inside the lock is
\* eventually granted _mutex and runs (strong fairness: other threads holding
\* _mutex in between do not shut it out for ever), a timed wait ends at its
\* deadline, and a holder lets go.  Nothing obliges an idle thread to call.
FairSpec == Spec /\ \A t \in Threads : SF_vars(FairProgress(t))

----------------------------------------------------------------------------
\* The benchmark of main (lines 363-404): `concurrency` threads run func, each
\* `count` times writeLock / ++value / unlockWrite on one lock.

\* Largest iteration count tried (bound of the model).
MaxIter == 2

\* `int const n = iterations / 20` (line 383): a progress line is printed
\* every n-th iteration.
ReportParts == 20

\* main up to the start of the threads: both arguments are positive.
BenchInit ==
  /\ LockInit
  /\ concurrency \in 1 .. NumThreads
  /\ count \in 1 .. MaxIter
  /\ value = 0
  /\ iter = [t \in Threads |-> 0]
  /\ step = [t \in Threads |-> "report"]
  /\ tmp = [t \in Threads |-> 0]

\* Lines 384-387: the loop test and `report && (i % n == 0)`; report is
\* `i >= 0`, true for every thread.  With n == 0 the remainder is undefined:
\* the process dies of the division, or goes on.  Printing changes nothing.
funcReport(t) ==
  /\ ~crashed
  /\ t \in 1 .. concurrency
  /\ pc[t] = "idle"
  /\ step[t] = "report"
  /\ iter[t] < count
  /\ step' = [step EXCEPT ![t] = "lock"]
  /\ crashed' \in IF count \div ReportParts = 0 THEN BOOLEAN ELSE {FALSE}
  /\ UNCHANGED <<phase, readersRun, readersWait, sleepersStart, sleepersEnd,
                 freeList, next, pc, wac, notified, ahead, woke,
                 concurrency, count, value, iter, tmp>>

\* Line 389: lock.writeLock() is called ...
funcLock(t) ==
  /\ step[t] = "lock"
  /\ Call(t, "c_writeLock")

\* ... and runs until it returns with the write lock.  (A writer of the
\* benchmark is notified only when its predicate holds, so it never has to
\* go back to sleep.)
funcLocking(t) ==
  \/ writeLock(t) \/ writeLockHead(t) \/ writeLockHandoff(t)

\* Line 390, `++value` on a plain int: load ...
funcLoad(t) ==
  /\ ~crashed
  /\ pc[t] = "holdW"
  /\ step[t] = "lock"
  /\ tmp' = [tmp EXCEPT ![t] = value]
  /\ step' = [step EXCEPT ![t] = "store"]
  /\ UNCHANGED <<phase, readersRun, readersWait, sleepersStart, sleepersEnd,
                 freeList, next, pc, wac, notified, ahead, crashed, woke,
                 concurrency, count, value, iter>>

\* ... add and store.
funcStore(t) ==
  /\ ~crashed
  /\ pc[t] = "holdW"
  /\ step[t] = "store"
  /\ value' = tmp[t] + 1
  /\ step' = [step EXCEPT ![t] = "unlock"]
  /\ UNCHANGED <<phase, readersRun, readersWait, sleepersStart, sleepersEnd,
                 freeList, next, pc, wac, notified, ahead, crashed, woke,
                 concurrency, count, iter, tmp>>

\* Line 391: lock.unlockWrite()
funcUnlock(t) ==
  /\ step[t] = "unlock"
  /\ unlockWrite(t)

\* `++i` of line 384.
funcNext(t) ==
  /\ ~crashed
  /\ pc[t] = "idle"
  /\ step[t] = "unlock"
  /\ iter' = [iter EXCEPT ![t] = iter[t] + 1]
  /\ step' = [step EXCEPT ![t] = "report"]
  /\ UNCHANGED <<phase, readersRun, readersWait, sleepersStart, sleepersEnd,
                 freeList, next, pc, wac, notified, ahead, crashed, woke,
                 concurrency, count, value, tmp>>

func(t) ==
  \/ funcReport(t) \/ funcLock(t) \/ funcLocking(t)
  \/ funcLoad(t) \/ funcStore(t) \/ funcUnlock(t) \/ funcNext(t)

\* Lines 395-397: the threads run func side by side.
BenchNext == \E t \in Threads : func(t)

BenchSpec == BenchInit /\ [][BenchNext]_vars

\* What scheduling guarantees to a benchmark thread: as in FairSpec, and a
\* thread outside the lock keeps running.
FairFunc(t) ==
  /\ pc[t] \in {"wl_q", "wl_h"} => notified[t]
  /\ func(t)

FairBenchSpec == BenchSpec /\ \A t \in Threads : SF_vars(FairFunc(t))

TypeOK ==
  /\ phase \in 0 .. 3
  /\ readersRun \in 0 .. NumThreads
  /\ readersWait \in 0 .. NumThreads
  /\ sleepersStart \in Nodes \cup {NULL}
  /\ sleepersEnd \in Nodes \cup {NULL}
  /\ freeList \in Nodes \cup {NULL}
  /\ next \in [Nodes -> Nodes \cup {NULL}]
  /\ pc \in [Threads -> PcValues]
  /\ wac \in [Threads -> Nodes \cup {NULL}]
  /\ notified \in [Threads -> BOOLEAN]
  /\ ahead \in [Threads -> SUBSET Threads]
  /\ crashed \in BOOLEAN
  /\ woke \in [Threads -> {"none", "release", "revert"}]
  /\ concurrency \in 0 .. NumThreads
  /\ count \in 0 .. MaxIter
  /\ value \in 0 .. NumThreads * MaxIter
  /\ iter \in [Threads -> 0 .. MaxIter]
  /\ step \in [Threads -> {"report", "lock", "store", "unlock"}]
  /\ tmp \in [Threads -> 0 .. NumThreads * MaxIter]

----------------------------------------------------------------------------
\* Properties

Holders(kind) == {t \in Threads : pc[t] = kind}

\* C1. Mutual exclusion: at most one thread holds the write lock, and no
\* thread holds the read lock while a thread holds the write lock.
C1_MutualExclusion ==
  /\ Cardinality(Holders("holdW")) <= 1
  /\ Holders("holdW") # {} => Holders("holdR") = {}

\* A writer holds the lock while a reader and another writer are suspended.
C1_Witness ==
  \E t, u, v \in Threads :
    pc[t] = "holdW" /\ pc[u] \in ReaderWaits /\ pc[v] \in WriterWaits

\* C2. Writers are not starved: under fair scheduling, with every holder
\* eventually releasing, a thread blocked in writeLock eventually holds the
\* write lock (runs in which the process died are left aside).
C2_NoWriterStarvation ==
  \A t \in Threads :
    (pc[t] \in {"wl_q", "wl_h"}) ~> (pc[t] = "holdW" \/ crashed)

\* C3. No reader overtakes an earlier-queued writer: a reader holds the read
\* lock only when every writer that was queued when the reader called has had
\* its turn (acquired and released, or returned false).
C3_NoReaderOvertakes ==
  \A t \in Threads : pc[t] = "holdR" => ahead[t] = {}

\* Position of object n in the sequence q (0 when absent).
Pos(q, n) == IF n \in Range(q) THEN CHOOSE i \in 1 .. Len(q) : q[i] = n ELSE 0

\* q2 keeps the order of q1, and what is new in q2 stands behind what is old.
KeepsOrder(q1, q2) ==
  \A a, b \in Range(q2) :
    /\ (a \in Range(q1) /\ b \in Range(q1) /\ Pos(q1, a) < Pos(q1, b))
         => Pos(q2, a) < Pos(q2, b)
    /\ (a \in Range(q1) /\ b \notin Range(q1)) => Pos(q2, a) < Pos(q2, b)

\* C4. Writer FIFO among queued writers: the queue keeps the order in which
\* the writers enqueued, and a queued writer acquires the write lock only when
\* its alarm clock is the head of the queue.
C4_WriterFIFO ==
  [][/\ KeepsOrder(QueueSeq, QueueSeq')
     /\ \A t \in Threads :
          (pc[t] \in WriterWaits /\ pc'[t] = "holdW") => wac[t] = sleepersStart
    ]_vars

\* A writer that went through the queue holds the lock with two more queued.
C4_Witness ==
  /\ Holders("holdW") # {}
  /\ freeList # NULL
  /\ Len(QueueSeq) >= 2

\* C5. Writers are served strictly in arrival order: a writeLock or
\* tryWriteLock(timeout) call never takes the fast path while another writer's
\* alarm clock is waiting in the queue.
C5_NoQueueJumping ==
  [][\A t \in Threads :
       (pc[t] \in {"c_writeLock", "c_tryWriteLockT"} /\ pc'[t] = "holdW")
         => sleepersStart = NULL
    ]_vars

\* C6. tryWriteLock() returns true, setting the phase to WRITING, exactly when
\* the queue is empty, the phase is READING and no reader runs; otherwise it
\* returns false and leaves phase, counters and queue as they were.
C6_TryWriteLock ==
  [][\A t \in Threads :
       (pc[t] = "c_tryWriteLock" /\ pc'[t] # "c_tryWriteLock") =>
         IF sleepersStart = NULL /\ phase = READING /\ readersRun = 0
           THEN /\ pc'[t] = "holdW"
                /\ phase' = WRITING
                /\ UNCHANGED <<readersRun, readersWait, sleepersStart,
                               sleepersEnd, next>>
           ELSE /\ pc'[t] = "f_tryWriteLock"
                /\ UNCHANGED <<phase, readersRun, readersWait, sleepersStart,
                               sleepersEnd, next>>
    ]_vars

\* tryWriteLock() has returned false with a writer queued and nobody holding
\* the lock.
C6_Witness ==
  \E t \in Threads :
    /\ pc[t] = "f_tryWriteLock"
    /\ sleepersStart # NULL
    /\ Holders("holdW") = {} /\ Holders("holdR") = {}

\* C7. When nobody holds _mutex, phase READING implies an empty writer queue.
C7_ReadingImpliesEmptyQueue ==
  (MutexFree /\ phase = READING) => sleepersStart = NULL

\* C8. When nobody holds _mutex, phase READING_WRITERS_WAITING or HANDOFF
\* implies a non-empty writer queue.
C8_WaitingImpliesQueue ==
  (MutexFree /\ phase \in {READING_WRITERS_WAITING, HANDOFF})
    => sleepersStart # NULL

\* C9. Running readers imply phase READING or READING_WRITERS_WAITING.
C9_ReadersImplyReadingPhase ==
  readersRun > 0 => phase \in {READING, READING_WRITERS_WAITING}

\* Two readers run while a writer has announced itself.
C9_Witness ==
  readersRun >= 2 /\ phase = READING_WRITERS_WAITING

\* C10. A tryWriteLock(timeout) call that returns false leaves its alarm clock
\* unlinked from the queue, and the other queued writers keep their order.
C10_TimeoutUnlinks ==
  /\ [](\A t \in Threads :
          pc[t] = "f_tryWriteLockT" => wac[t] \notin Range(QueueSeq))
  /\ [][\A t \in Threads :
          (pc[t] # "f_tryWriteLockT" /\ pc'[t] = "f_tryWriteLockT") =>
             QueueSeq' = SelectSeq(QueueSeq, LAMBDA n : n # wac'[t])
       ]_vars

\* A timed writer has returned false and two other writers are still queued.
C10_Witness ==
  \E t \in Threads : pc[t] = "f_tryWriteLockT" /\ Len(QueueSeq) >= 2

\* The queue q without object n.
Without(q, n) == SelectSeq(q, LAMBDA x : x # n)

\* C11. Timeout correctness: a tryWriteLock(timeout) call made while another
\* thread holds the write lock, and keeps holding it until the call expires,
\* returns false and leaves no trace: while the holder holds, no step of the
\* call acquires the write lock or changes phase, readersRun or readersWait,
\* the step that suspends the caller does nothing to the queue but append the
\* caller's alarm clock at the tail, and the step that gives up does nothing
\* to it but take that alarm clock out again.
C11_TimedOutCallLeavesNoTrace ==
  [][\A t \in Threads :
       (/\ \E h \in Threads \ {t} : pc[h] = "holdW"
        /\ pc[t] \in {"c_tryWriteLockT", "twl_q", "twl_h"}
        /\ pc'[t] # pc[t])
       => /\ pc'[t] \in {"twl_q", "twl_h", "f_tryWriteLockT"}
          /\ phase' = phase
          /\ readersRun' = readersRun
          /\ readersWait' = readersWait
          /\ pc'[t] = "f_tryWriteLockT" => QueueSeq' = Without(QueueSeq, wac[t])
          /\ pc'[t] \in {"twl_q", "twl_h"} =>
               QueueSeq' = IF wac[t] = NULL THEN Append(QueueSeq, wac'[t])
                           ELSE QueueSeq]_vars

\* A timed writer has given up behind another queued writer while a third
\* thread holds the write lock.
C11_Witness ==
  \E t, h \in Threads :
    /\ pc[t] = "f_tryWriteLockT"
    /\ pc[h] = "holdW"
    /\ wac[t] # NULL
    /\ sleepersStart # NULL

\* Every benchmark thread has left its loop.
Joined == \A t \in 1 .. concurrency : iter[t] = count

\* C12. Counter correctness of the writers-only workload: the benchmark, run
\* with any positive number of threads and of iterations, terminates (every
\* thread finishes its loop, none is left blocked) and leaves the counter at
\* concurrency * count.
C12_CounterCorrect ==
  /\ <>Joined
  /\ [](Joined => value = concurrency * count)

\* What the lock consists of, apart from the free list.
LockState == <<phase, readersRun, readersWait, sleepersStart, sleepersEnd, next>>

\* C13. Shared-read admission: a call of readLock, tryReadLock() or
\* tryReadLock(timeout) that finds phase READING adds one to readersRun and
\* returns with the read lock without suspending, however many readers hold
\* the lock already, and changes nothing else; tryReadLock() that finds
\* another phase returns false and changes nothing.
C13_SharedReadAdmission ==
  [][\A t \in Threads :
       /\ (/\ pc[t] \in {"c_readLock", "c_tryReadLock", "c_tryReadLockT"}
           /\ pc'[t] # pc[t]
           /\ phase = READING)
          => /\ pc'[t] = "holdR"
             /\ readersRun' = readersRun + 1
             /\ UNCHANGED <<phase, readersWait, sleepersStart, sleepersEnd,
                            freeList, next>>
       /\ (/\ pc[t] = "c_tryReadLock"
           /\ pc'[t] # pc[t]
           /\ phase # READING)
          => /\ pc'[t] = "f_tryReadLock"
             /\ UNCHANGED <<LockState, freeList>>]_vars

\* Every thread holds the read lock at the same time.
C13_Witness == \A t \in Threads : pc[t] = "holdR"

\* Some thread gives up the write lock in this step.
WriterReleases == \E w \in Threads : pc[w] = "holdW" /\ pc'[w] = "idle"

\* Some tryWriteLock(timeout) call gives up in this step.
TimedWriterExpires ==
  \E w \in Threads : pc[w] # "f_tryWriteLockT" /\ pc'[w] = "f_tryWriteLockT"

\* C14. Phase transitions: every change of phase is one of 0 -> 1, 1 -> 2,
\* 2 -> 3, 3 -> 0, 0 -> 3 (only with readersRun = 0), 3 -> 2 (only when a
\* writer releases, a writer is queued and no reader waits) and 1 -> 0 (only
\* when a timed writer expires and the queue becomes empty).
C14_PhaseEdges ==
  [][phase' # phase =>
       \/ phase = READING /\ phase' = READING_WRITERS_WAITING
       \/ phase = READING_WRITERS_WAITING /\ phase' = HANDOFF
       \/ phase = HANDOFF /\ phase' = WRITING
       \/ phase = WRITING /\ phase' = READING
       \/ phase = READING /\ phase' = WRITING /\ readersRun = 0
       \/ /\ phase = WRITING /\ phase' = HANDOFF
          /\ WriterReleases /\ sleepersStart # NULL /\ readersWait = 0
       \/ /\ phase = READING_WRITERS_WAITING /\ phase' = READING
          /\ TimedWriterExpires /\ sleepersStart' = NULL]_vars

\* A timed writer has just given up and the lock is back in phase 0 with a
\* reader running and a woken reader still suspended: the edge 1 -> 0.
C14_Witness ==
  \E w, r \in Threads :
    /\ pc[w] = "f_tryWriteLockT"
    /\ phase = READING
    /\ readersRun > 0
    /\ woke[r] = "revert"

C16_ReaderReleasePolicy ==
  [][\A t \in Threads :
       (pc[t] = "holdR" /\ pc'[t] = "idle")
       => /\ readersRun' = readersRun - 1
          /\ IF readersRun - 1 = 0 /\ phase = READING_WRITERS_WAITING
               THEN /\ phase' = HANDOFF
                    /\ sleepersStart # NULL
                    /\ \E u \in Sleeper(sleepersStart) : notified'[u]
               ELSE UNCHANGED <<phase, sleepersStart, sleepersEnd, next>>]_vars

\* C17. Timeout revert of admission: when a tryWriteLock(timeout) call gives
\* up at the head while waiting for HANDOFF and leaves an empty queue in phase
\* READING_WRITERS_WAITING, phase goes back to READING and every suspended
\* reader is woken; each reader suspended at that moment is then admitted: it
\* leaves its wait with the read lock and in no other way.
C17_RevertAdmitsReaders ==
  [][/\ \A w \in Threads :
          (/\ pc[w] = "twl_h" /\ pc'[w] = "f_tryWriteLockT"
           /\ phase = READING_WRITERS_WAITING
           /\ sleepersStart' = NULL)
          => /\ phase' = READING
             /\ \A r \in Threads : pc[r] \in ReaderWaits => notified'[r]
     /\ \A r \in Threads :
          (woke[r] = "revert" /\ pc'[r] # pc[r]) => pc'[r] = "holdR"]_vars

\* C18. Counter accuracy: readersRun is the number of threads that hold the
\* read lock and readersWait the number of threads suspended in readLock or
\* tryReadLock(timeout), in every state between two critical sections (here:
\* in every state); neither is ever negative.
C18_CounterAccuracy ==
  /\ readersRun = Cardinality(Holders("holdR"))
  /\ readersWait = Cardinality({t \in Threads : pc[t] \in ReaderWaits})
  /\ readersRun >= 0
  /\ readersWait >= 0

\* A tryReadLock(timeout) call has just expired while a writer holds the lock
\* and another reader is still suspended.
C18_Witness ==
  \E t, u, w \in Threads :
    /\ pc[t] = "f_tryReadLockT"
    /\ pc[u] \in ReaderWaits
    /\ pc[w] = "holdW"

\* C19. The head wake has a head: whenever a release of the read lock brings
\* readersRun to 0 in phase READING_WRITERS_WAITING, and so signals the alarm
\* clock _sleepersStart points to, the writer queue is not empty.
C19_HeadWakeHasHead ==
  [][\A t \in Threads :
       (/\ pc[t] = "holdR" /\ pc'[t] = "idle"
        /\ readersRun = 1
        /\ phase = READING_WRITERS_WAITING)
       => sleepersStart # NULL]_vars

\* C20. Batch-woken readers get their reading phase: after a writer's release
\* that found readers waiting and switched to READING, no writer obtains the
\* write lock while a reader that was suspended in readLock at that release
\* has not yet obtained the read lock.
C20_WokenReadersFirst ==
  [][\A w \in Threads :
       (pc[w] # "holdW" /\ pc'[w] = "holdW")
       => \A r \in Threads : ~(woke[r] = "release" /\ pc[r] = "rl_w")]_vars
====
